---- MODULE Spec2Model ----
(***************************************************************************)
(* Webhook ingestion service (app/main.py, app/storage.py, app/models.py,  *)
(* app/metrics.py): signature verification, payload validation, idempotent *)
(* insert into the SQLite table `messages`, filtered and paginated reads.  *)
(*                                                                         *)
(* Python str values are sequences of Unicode code points, so that regex   *)
(* matching, ASCII tests, lexicographic comparison and LIKE are computed   *)
(* character by character.  Python None is the one-element tuple None.     *)
(***************************************************************************)
EXTENDS Integers, Sequences, FiniteSets, TLC

None == << -1 >>

(***************************************************************************)
(* Bounds of the model.                                                    *)
(***************************************************************************)
MaxProcs == 2
MaxRequests == 3
MaxClock == 1
MaxRows == 3

Procs == 1..MaxProcs

(***************************************************************************)
(* String literals used as inputs.                                         *)
(***************************************************************************)
\* "m1", "m2"
M1 == <<109,49>>
M2 == <<109,50>>
\* "+1", "+2", "+9"
P1 == <<43,49>>
P2 == <<43,50>>
P9 == <<43,57>>
\* "+1\n" : a phone number followed by a line feed
P1NL == <<43,49,10>>
\* "1" : no leading plus
NoPlus == <<49>>
\* "2025-01-15T09:00:00Z", "2025-01-15T10:00:00Z"
TS_0900 == <<50,48,50,53,45,48,49,45,49,53,84,48,57,58,48,48,58,48,48,90>>
TS_1000 == <<50,48,50,53,45,48,49,45,49,53,84,49,48,58,48,48,58,48,48,90>>
\* "2025-01-15T10:00:00" : no Z suffix
TS_NoZ == <<50,48,50,53,45,48,49,45,49,53,84,49,48,58,48,48,58,48,48>>
\* "2025-13-15T10:00:00Z" : month 13
TS_Month13 == <<50,48,50,53,45,49,51,45,49,53,84,49,48,58,48,48,58,48,48,90>>
\* "Hi", "hi", "a_b"
Hi == <<72,105>>
HiLower == <<104,105>>
AUnderB == <<97,95,98>>
\* a text of 4097 characters "a"
Text4097 == [i \in 1..4097 |-> 97]
\* the configured secret "s3"
Sec == <<115,51>>
\* header values: "0000" and the one-character non-ASCII string U+00E9
SigZeros == <<48,48,48,48>>
SigNonAscii == <<233>>

(***************************************************************************)
(* String helpers.                                                         *)
(***************************************************************************)
IsAscii(s) == \A i \in 1..Len(s) : s[i] < 128

\* Python truthiness of an Optional[str]
\* the test `s is not None` in place of the truth value of s
IsNotNone(s) == s # None

Truthy(s) == s # None /\ s # <<>>

Min2(a, b) == IF a <= b THEN a ELSE b

\* a < b for strings: code point order, a proper prefix is smaller
\* (Python str comparison; SQLite BINARY collation on the UTF-8 encoding)
StrLess(a, b) ==
    \E k \in 1..(Min2(Len(a), Len(b)) + 1) :
        /\ \A i \in 1..(k - 1) : a[i] = b[i]
        /\ \/ (k > Len(a) /\ k <= Len(b))
           \/ (k <= Len(a) /\ k <= Len(b) /\ a[k] < b[k])

StrLeq(a, b) == a = b \/ StrLess(a, b)

\* str.replace("Z", "+00:00")
RECURSIVE ReplaceZ(_)
ReplaceZ(s) ==
    IF s = <<>> THEN <<>>
    ELSE (IF Head(s) = 90 THEN <<43,48,48,58,48,48>> ELSE <<Head(s)>>)
         \o ReplaceZ(Tail(s))

(***************************************************************************)
(* app/models.py : WebhookMessage                                          *)
(***************************************************************************)
\* re \d on a str pattern: ASCII digits and the other Unicode decimal digits
\* (U+0660..U+0669 stand for those)
IsDigit(c) == c \in 48..57 \/ c \in 1632..1641

\* E164_PATTERN.match(v) for r"^\+\d+$": `$` matches at the end of the
\* string and also just before a line feed that ends the string
E164Match(v) ==
    LET n == Len(v)
        ends == {n} \cup (IF n >= 1 /\ v[n] = 10 THEN {n - 1} ELSE {})
    IN \E e \in ends :
          /\ e >= 2
          /\ v[1] = 43
          /\ \A i \in 2..e : IsDigit(v[i])

Num2(s, i) == (s[i] - 48) * 10 + (s[i + 1] - 48)

IsLeap(y) == (y % 4 = 0 /\ y % 100 # 0) \/ y % 400 = 0

DaysInMonth(y, m) ==
    IF m = 2 THEN (IF IsLeap(y) THEN 29 ELSE 28)
    ELSE IF m \in {4, 6, 9, 11} THEN 30 ELSE 31

\* datetime.fromisoformat(s) succeeds, for s of the shape
\* YYYY-MM-DD?HH:MM:SS+HH:MM (the shape every Z-suffixed 20-character input
\* takes after the replace); any other length drawn here is not a datetime
FromIsoformatOk(s) ==
    /\ Len(s) = 25
    /\ \A i \in {1,2,3,4,6,7,9,10,12,13,15,16,18,19,21,22,24,25} : s[i] \in 48..57
    /\ s[5] = 45 /\ s[8] = 45
    /\ s[14] = 58 /\ s[17] = 58
    /\ s[20] \in {43, 45} /\ s[23] = 58
    /\ Num2(s, 6) \in 1..12
    /\ Num2(s, 9) \in 1..DaysInMonth(Num2(s, 1) * 100 + Num2(s, 3), Num2(s, 6))
    /\ Num2(s, 12) \in 0..23
    /\ Num2(s, 15) \in 0..59
    /\ Num2(s, 18) \in 0..59
    /\ Num2(s, 21) \in 0..23
    /\ Num2(s, 24) \in 0..59

validate_ts(v) ==
    /\ Len(v) >= 1 /\ v[Len(v)] = 90
    /\ FromIsoformatOk(ReplaceZ(v))

MaxTextLength == 4096

\* WebhookMessage(**payload) does not raise
WebhookMessage(p) ==
    /\ p.message_id # None /\ Len(p.message_id) >= 1
    /\ p.from # None /\ E164Match(p.from)
    /\ p.to # None /\ E164Match(p.to)
    /\ p.ts # None /\ validate_ts(p.ts)
    /\ (p.text = None \/ Len(p.text) <= MaxTextLength)

(***************************************************************************)
(* Request bodies.  A body is either bytes that json.loads rejects or the  *)
(* JSON object with the five fields (None: the field is absent or null).   *)
(***************************************************************************)
Base == [message_id |-> M1, from |-> P1, to |-> P9, ts |-> TS_1000, text |-> Hi]

JsonBody(p) == [json |-> TRUE, payload |-> p]
BadJson == [json |-> FALSE, payload |-> Base]

ValidPayloads ==
    { Base,
      [Base EXCEPT !.from = P2, !.to = P1, !.ts = TS_0900, !.text = None],
      [Base EXCEPT !.message_id = M2, !.text = <<>>] }

InvalidPayloads ==
    { [Base EXCEPT !.message_id = <<>>],
      [Base EXCEPT !.from = NoPlus],
      [Base EXCEPT !.from = P1NL],
      [Base EXCEPT !.to = NoPlus],
      [Base EXCEPT !.from = None],
      [Base EXCEPT !.ts = TS_NoZ],
      [Base EXCEPT !.ts = TS_Month13],
      [Base EXCEPT !.text = Text4097] }

Bodies == {BadJson} \cup {JsonBody(p) : p \in ValidPayloads \cup InvalidPayloads}

(***************************************************************************)
(* app/main.py : verify_signature                                          *)
(***************************************************************************)
HexDigit(d) == IF d < 10 THEN 48 + d ELSE 87 + d

Hex4(n) == << HexDigit((n \div 4096) % 16), HexDigit((n \div 256) % 16),
              HexDigit((n \div 16) % 16), HexDigit(n % 16) >>

FieldSum(f) == IF f = None THEN 1
               ELSE IF f = <<>> THEN 2
               ELSE Len(f) * 31 + f[1] * 7 + f[Len(f)]

BodySum(b) ==
    IF ~b.json THEN 3
    ELSE FieldSum(b.payload.message_id) + 3 * FieldSum(b.payload.from)
         + 5 * FieldSum(b.payload.to) + 11 * FieldSum(b.payload.ts)
         + 13 * FieldSum(b.payload.text)

\* hmac.new(secret.encode("utf-8"), body, hashlib.sha256).hexdigest():
\* a keyed digest written in lowercase hexadecimal (the library function is
\* stood for by a short keyed checksum)
HmacSha256Hex(secret, body) ==
    Hex4((FieldSum(secret) * 17 + BodySum(body)) % 65536)

\* hmac.compare_digest(a, b): "TypeError" when an argument is None or is a
\* str with a non-ASCII character, else equality
compare_digest(a, b) ==
    IF a = None \/ b = None THEN "TypeError"
    ELSE IF ~IsAscii(a) \/ ~IsAscii(b) THEN "TypeError"
    ELSE IF a = b THEN "True" ELSE "False"

\* secret.encode raises AttributeError when secret is None; the empty
\* secret is a key like any other
verify_signature(secret, body, signature) ==
    IF secret = None THEN "AttributeError"
    ELSE compare_digest(HmacSha256Hex(secret, body), signature)

\* X-Signature header values a client may send with a body
Signatures(body) ==
    {None, <<>>, SigZeros, SigNonAscii, HmacSha256Hex(Sec, body)}

(***************************************************************************)
(* app/storage.py : Database.get_messages                                  *)
(***************************************************************************)
\* ASCII lower case of one character: SQLite's LIKE ignores case for the
\* ASCII letters only
Lower(c) == IF c \in 65..90 THEN c + 32 ELSE c

\* SQLite `s LIKE pat` for non-NULL operands: % matches any run of
\* characters, _ matches any one character, no escape character
RECURSIVE Like(_, _)
Like(pat, s) ==
    IF pat = <<>> THEN s = <<>>
    ELSE IF Head(pat) = 37
         THEN Like(Tail(pat), s) \/ (s # <<>> /\ Like(pat, Tail(s)))
         ELSE /\ s # <<>>
              /\ (Head(pat) = 95 \/ Lower(Head(pat)) = Lower(Head(s)))
              /\ Like(Tail(pat), Tail(s))

\* the WHERE clause built from the filters that are truthy; a comparison
\* or LIKE with a NULL text is NULL, which selects nothing
Where(row, from_filter, since, q) ==
    /\ (Truthy(from_filter) => row.from = from_filter)
    /\ (Truthy(since) => StrLeq(since, row.ts))
    /\ (Truthy(q) => (row.text # None /\ Like(<<37>> \o q \o <<37>>, row.text)))

\* ORDER BY ts ASC alone
RowLessTsOnly(a, b) == StrLess(a.ts, b.ts)

\* ORDER BY ts ASC, message_id ASC
RowLess(a, b) ==
    \/ StrLess(a.ts, b.ts)
    \/ (a.ts = b.ts /\ StrLess(a.message_id, b.message_id))

RECURSIVE InsertSorted(_, _)
InsertSorted(s, r) ==
    IF s = <<>> THEN <<r>>
    ELSE IF RowLess(r, Head(s)) THEN <<r>> \o s
    ELSE <<Head(s)>> \o InsertSorted(Tail(s), r)

RECURSIVE OrderBy(_)
OrderBy(s) ==
    IF s = <<>> THEN <<>>
    ELSE InsertSorted(OrderBy(SubSeq(s, 1, Len(s) - 1)), s[Len(s)])

\* LIMIT without OFFSET
LimitIgnoringOffset(s, limit, offset) ==
    SubSeq(s, 1, IF limit < 0 THEN Len(s) ELSE Min2(Len(s), limit))

\* LIMIT ? OFFSET ? : a negative LIMIT is no limit, a negative OFFSET is 0
LimitOffset(s, limit, offset) ==
    LET off == IF offset < 0 THEN 0 ELSE offset
        last == IF limit < 0 THEN Len(s) ELSE Min2(Len(s), off + limit)
    IN SubSeq(s, off + 1, last)

\* the dict built from a selected row
MessageDict(row) ==
    [message_id |-> row.message_id, from |-> row.from, to |-> row.to,
     ts |-> row.ts, text |-> row.text]

Selected(rows, from_filter, since, q) ==
    SelectSeq(rows, LAMBDA row : Where(row, from_filter, since, q))

\* get_messages on a store whose table exists: (messages, total)
get_messages(rows, limit, offset, from_filter, since, q) ==
    LET sel == Selected(rows, from_filter, since, q)
        page == LimitOffset(OrderBy(sel), limit, offset)
    IN [messages |-> [i \in 1..Len(page) |-> MessageDict(page[i])],
        total |-> Len(sel)]

(***************************************************************************)
(* app/main.py : list_messages.  The query string is a record: from_filter,*)
(* since and q are None when absent; limit and offset are fields only when *)
(* the parameter is given.                                                 *)
(***************************************************************************)
DefaultLimit == 50
DefaultOffset == 0
MinLimit == 1
MaxLimit == 100
MinOffset == 0

\* Query(default=...): the value of an integer parameter
QueryParam(a, name, default) == IF name \in DOMAIN a THEN a[name] ELSE default

\* a limit checked with ge=1 alone
QueryParamsValidNoUpperBound(limit, offset) ==
    limit >= MinLimit /\ offset >= MinOffset

\* Query(ge=1, le=100) on limit and Query(ge=0) on offset
QueryParamsValid(limit, offset) ==
    limit >= MinLimit /\ limit <= MaxLimit /\ offset >= MinOffset

\* the answer to GET /messages: status, detail, the calls of
\* Database.get_messages made (their arguments) and the response body
list_messages(exists, rows, a) ==
    LET limit == QueryParam(a, "limit", DefaultLimit)
        offset == QueryParam(a, "offset", DefaultOffset)
        args == [limit |-> limit, offset |-> offset, from_filter |-> a.from_filter,
                 since |-> a.since, q |-> a.q]
    IN IF ~QueryParamsValid(limit, offset)
       THEN \* RequestValidationError, the handler is not called
            [status |-> 422, detail |-> "validation", store_calls |-> <<>>,
             body |-> <<>>]
       ELSE IF ~exists
       THEN \* sqlite3.OperationalError (no such table), nothing catches it
            [status |-> 500, detail |-> "OperationalError", store_calls |-> <<args>>,
             body |-> <<>>]
       ELSE LET r == get_messages(rows, limit, offset, a.from_filter, a.since, a.q)
            IN [status |-> 200, detail |-> "", store_calls |-> <<args>>,
                body |-> [data |-> r.messages, total |-> r.total,
                          limit |-> limit, offset |-> offset]]

(***************************************************************************)
(* app/storage.py : Database.get_stats, Database.is_ready                  *)
(***************************************************************************)
Senders(rows) == {rows[i].from : i \in 1..Len(rows)}

\* COUNT(*) within the group of sender f
CountFrom(rows, f) == Cardinality({i \in 1..Len(rows) : rows[i].from = f})

\* GROUP BY from_msisdn without ORDER BY: the groups in order of sender
RECURSIVE GroupsBySender(_, _)
GroupsBySender(rows, S) ==
    IF S = {} THEN {<<>>}
    ELSE LET f == CHOOSE f \in S : \A g \in S : StrLeq(f, g)
         IN { <<[from |-> f, count |-> CountFrom(rows, f)]>> \o rest :
                rest \in GroupsBySender(rows, S \ {f}) }

\* GROUP BY from_msisdn ORDER BY count DESC: the groups by non-increasing
\* count; SQL leaves the order of groups of equal count open, so every such
\* order is a possible result
RECURSIVE GroupsByCountDesc(_, _)
GroupsByCountDesc(rows, S) ==
    IF S = {} THEN {<<>>}
    ELSE LET top == {f \in S : \A g \in S : CountFrom(rows, g) <= CountFrom(rows, f)}
         IN UNION { { <<[from |-> f, count |-> CountFrom(rows, f)]>> \o rest :
                      rest \in GroupsByCountDesc(rows, S \ {f}) } : f \in top }

TopSendersLimit == 10

\* the ts of the row inserted first
FirstInsertedTs(rows) == IF rows = <<>> THEN None ELSE rows[1].ts

\* COUNT(text): the rows whose text is not NULL
CountRowsWithText(rows) == Cardinality({i \in 1..Len(rows) : rows[i].text # None})

\* COUNT(*)
CountRows(rows) == Len(rows)

\* COUNT(from_msisdn)
CountSenderValues(rows) == Len(rows)

\* COUNT(DISTINCT from_msisdn)
CountDistinctSenders(rows) == Cardinality(Senders(rows))

\* MIN(ts), MAX(ts): NULL on an empty table
MinTs(rows) ==
    IF rows = <<>> THEN None
    ELSE LET i == CHOOSE i \in 1..Len(rows) :
                     \A j \in 1..Len(rows) : StrLeq(rows[i].ts, rows[j].ts)
         IN rows[i].ts

MaxTs(rows) ==
    IF rows = <<>> THEN None
    ELSE LET i == CHOOSE i \in 1..Len(rows) :
                     \A j \in 1..Len(rows) : StrLeq(rows[j].ts, rows[i].ts)
         IN rows[i].ts

\* the results get_stats may return on a store whose table exists
get_stats(rows) ==
    { [total_messages |-> CountRows(rows),
       senders_count |-> CountDistinctSenders(rows),
       messages_per_sender |-> SubSeq(g, 1, Min2(Len(g), TopSendersLimit)),
       first_message_ts |-> MinTs(rows),
       last_message_ts |-> MaxTs(rows)] :
      g \in GroupsByCountDesc(rows, Senders(rows)) }

\* is_ready without the try/except
is_ready_uncaught(exists, fault) ==
    IF fault THEN "raise" ELSE IF exists THEN "True" ELSE "False"

\* is_ready: the sqlite_master lookup finds the table; an exception from
\* connecting or from the query (fault: the storage access fails) is caught
\* and False is returned
is_ready(exists, fault) ==
    IF fault THEN "False" ELSE IF exists THEN "True" ELSE "False"

(***************************************************************************)
(* The running service.                                                    *)
(*   webhook_secret    settings.webhook_secret (None when the variable is  *)
(*                     unset)                                              *)
(*   phase             "boot" before lifespan's startup part, then         *)
(*                     "serving"                                           *)
(*   table_exists      the table `messages` exists in the database file    *)
(*   messages          the rows of the table, in insertion (rowid) order   *)
(*   db_writer         the request whose connection holds SQLite's write   *)
(*                     lock (an INSERT executed, not yet committed), or 0  *)
(*   now               the UTC clock as last read by insert_message        *)
(*   req               per request slot: the position of the request being *)
(*                     handled and its request.state                       *)
(*   last              the request answered last: what was received and    *)
(*                     what was answered                                   *)
(*   webhook_requests  MetricsCollector._webhook_requests                  *)
(*   nrequests         number of requests received so far                  *)
(*   not_dup_returns   per message_id, the number of insert_message calls  *)
(*                     that returned is_duplicate = False (history)        *)
(*   call              the last direct call of a function of the program,  *)
(*                     with its arguments and its result (the              *)
(*                     specifications of the functions taken alone)        *)
(*   lock              MetricsCollector._lock: the thread holding it, or 0 *)
(*   http_requests     MetricsCollector._http_requests, by (path, status)  *)
(*   latency_counts    MetricsCollector._latency_counts, by bucket number  *)
(*   latency_sum       MetricsCollector._latency_sum                       *)
(*   latency_count     MetricsCollector._latency_count                     *)
(*   thr               per thread: the collector method being run, its     *)
(*                     argument and position, and the request it serves    *)
(*   handled           number of requests whose handling has ended, by     *)
(*                     (path, status) of the answer (history)              *)
(*   returned          the collector calls that have returned, by method   *)
(*                     and argument, how many of them returned while       *)
(*                     another thread was inside a method, and how many    *)
(*                     have returned since the last export (history)       *)
(*                                                                         *)
(* Spec follows the handlers and the store; the logging middleware and the *)
(* collector it feeds are followed in SpecMiddleware and SpecCollector.    *)
(***************************************************************************)
VARIABLES webhook_secret, phase, table_exists, messages, db_writer, now,
          req, last, webhook_requests, nrequests, not_dup_returns, call,
          lock, http_requests, latency_counts, latency_sum, latency_count,
          thr, handled, returned

vars == <<webhook_secret, phase, table_exists, messages, db_writer, now,
          req, last, webhook_requests, nrequests, not_dup_returns, call,
          lock, http_requests, latency_counts, latency_sum, latency_count,
          thr, handled, returned>>

\* the state of the service apart from the metrics collector
service_vars == <<webhook_secret, phase, table_exists, messages, db_writer, now,
                  req, last, not_dup_returns, call>>

\* the metrics collector apart from _webhook_requests, the threads that
\* call it and their history
collector_vars == <<lock, http_requests, latency_counts, latency_sum,
                    latency_count, thr, handled, returned>>

NoCall == [op |-> "none"]

Secrets == {None, <<>>, Sec}

Outcomes == {"invalid_signature", "validation_error", "duplicate", "created"}

MessageIds == {M1, M2}

\* pc: "idle", "insert" (insert_message called, INSERT not yet executed),
\*     "commit" (INSERT executed, not yet committed), "done" (answered)
\* existed:  a row with the payload's message_id was stored on arrival
\* alone:    no other request was being handled at any time since arrival
\* inserted: this request's INSERT was committed
IdleReq ==
    [pc |-> "idle", path |-> "", body |-> BadJson, x_signature |-> None,
     status |-> 0, detail |-> "", webhook_result |-> "", webhook_dup |-> FALSE,
     created_at |-> None, existed |-> FALSE, alone |-> FALSE,
     inserted |-> FALSE, query |-> <<>>, resp |-> <<>>]

InFlight(r) == r.pc # "idle"

\* datetime.now(timezone.utc).isoformat().replace("+00:00", "Z") for the
\* clock reading n: "2026-01-01T00:00:0<n>Z"
created_at_now(n) ==
    <<50,48,50,54,45,48,49,45,48,49,84,48,48,58,48,48,58,48>> \o <<48 + n>> \o <<90>>

RowsWithId(rows, id) == {i \in 1..Len(rows) : rows[i].message_id = id}

\* every outcome counted as created
inc_webhook_request_created(counters, result) ==
    [counters EXCEPT !["created"] = @ + 1]

\* MetricsCollector.inc_webhook_request
inc_webhook_request(counters, result) ==
    [counters EXCEPT ![result] = @ + 1]

(***************************************************************************)
(* app/metrics.py : MetricsCollector                                       *)
(***************************************************************************)
MaxThreads == 2
MaxCalls == 3

Threads == 1..MaxThreads

\* _latency_buckets without its last element float("inf"); bucket number
\* Len(Buckets) + 1 is the +Inf bucket
Buckets == <<10, 25, 50, 100, 250, 500, 1000, 2500, 5000>>

BucketNumbers == 1..(Len(Buckets) + 1)

\* latency_ms <= bucket
InBucket(ms, i) == i > Len(Buckets) \/ ms <= Buckets[i]

\* what the handlers do with a request, as the middleware sees it: a
\* response with a status, or an exception nothing handles (raised), which
\* the server answers 500
HandlerOutcomes ==
    { [path |-> "/webhook", status |-> 200, raised |-> FALSE, result |-> "created"],
      [path |-> "/webhook", status |-> 401, raised |-> FALSE,
       result |-> "invalid_signature"],
      [path |-> "/messages", status |-> 422, raised |-> FALSE, result |-> ""],
      [path |-> "/stats", status |-> 500, raised |-> TRUE, result |-> ""],
      [path |-> "/health/ready", status |-> 503, raised |-> FALSE, result |-> ""] }

\* the key f'{path}|{status}' of _http_requests
HttpKey(path, status) == <<path, status>>

HttpKeys == {HttpKey(o.path, o.status) : o \in HandlerOutcomes}

\* latencies in milliseconds: on a boundary, between two boundaries, above
\* the last finite one
Latencies == {10, 11, 6000}

IdleThread ==
    [pc |-> "idle", op |-> "", arg |-> <<>>, tmp |-> <<>>,
     in_request |-> FALSE, key |-> <<>>, ms |-> 0]

CollectorInit ==
    /\ lock = 0
    /\ http_requests = [k \in HttpKeys |-> 0]
    /\ latency_counts = [i \in BucketNumbers |-> 0]
    /\ latency_sum = 0
    /\ latency_count = 0
    /\ thr = [t \in Threads |-> IdleThread]
    /\ handled = [k \in HttpKeys |-> 0]
    /\ returned = [http |-> [k \in HttpKeys |-> 0],
                   webhook |-> [o \in Outcomes |-> 0],
                   latency |-> [ms \in Latencies |-> 0],
                   export |-> 0, overlapped |-> 0, since_export |-> 0]

Init ==
    /\ webhook_secret \in Secrets
    /\ phase = "boot"
    /\ table_exists \in BOOLEAN
    /\ messages = <<>>
    /\ db_writer = 0
    /\ now = 0
    /\ req = [p \in Procs |-> IdleReq]
    /\ last = IdleReq
    /\ webhook_requests = [o \in Outcomes |-> 0]
    /\ nrequests = 0
    /\ not_dup_returns = [id \in MessageIds |-> 0]
    /\ call = NoCall
    /\ CollectorInit

\* lifespan, startup part: the schema is created only when the secret is set
Startup ==
    /\ phase = "boot"
    /\ phase' = "serving"
    /\ table_exists' = (table_exists \/ Truthy(webhook_secret))
    /\ UNCHANGED <<collector_vars, call, webhook_secret, messages, db_writer, now, req, last,
                   webhook_requests, nrequests, not_dup_returns>>

\* a request is received: it is counted, and the requests being handled are
\* no longer alone
Receive ==
    /\ phase = "serving"
    /\ nrequests < MaxRequests
    /\ nrequests' = nrequests + 1

NotAlone(rq) ==
    [q \in Procs |-> IF InFlight(rq[q]) THEN [rq[q] EXCEPT !.alone = FALSE] ELSE rq[q]]

\* the slot that takes the next request: the free slot of least number
FreeSlot(p) ==
    /\ req[p].pc = "idle"
    /\ \A q \in Procs : q < p => req[q].pc # "idle"

Arrival(path) ==
    [IdleReq EXCEPT !.path = path,
                    !.alone = (\A q \in Procs : ~InFlight(req[q]))]

Answered(r, status) == [r EXCEPT !.pc = "done", !.status = status]

\* webhook, up to the call of insert_message and its first line: signature
\* check, json.loads and WebhookMessage, created_at (t: the reading of the
\* clock, which never goes back)
WebhookBegin(p, body, sig, t) ==
    /\ Receive
    /\ FreeSlot(p)
    /\ LET r0 == [Arrival("/webhook") EXCEPT
                    !.body = body, !.x_signature = sig,
                    !.existed = (body.json /\ body.payload.message_id # None
                                 /\ RowsWithId(messages, body.payload.message_id) # {})]
           v == IF Truthy(sig) /\ Truthy(webhook_secret)
                THEN verify_signature(webhook_secret, body, sig)
                ELSE "False"
       IN
       IF ~Truthy(sig) \/ ~Truthy(webhook_secret) \/ v = "False"
       THEN /\ last' = [Answered(r0, 401) EXCEPT
                           !.detail = "invalid signature",
                           !.webhook_result = "invalid_signature"]
            /\ webhook_requests' = inc_webhook_request(webhook_requests, "invalid_signature")
            /\ req' = NotAlone(req)
            /\ t = now /\ UNCHANGED now
       ELSE IF v = "TypeError"
       THEN \* compare_digest raises, nothing catches it: 500
            /\ last' = [Answered(r0, 500) EXCEPT !.detail = "TypeError"]
            /\ req' = NotAlone(req)
            /\ t = now /\ UNCHANGED <<now, webhook_requests>>
       ELSE IF ~body.json \/ ~WebhookMessage(body.payload)
       THEN /\ last' = [Answered(r0, 422) EXCEPT
                           !.detail = "validation",
                           !.webhook_result = "validation_error"]
            /\ webhook_requests' = inc_webhook_request(webhook_requests, "validation_error")
            /\ req' = NotAlone(req)
            /\ t = now /\ UNCHANGED now
       ELSE \* insert_message reads the clock, which shows t
            /\ now' = t
            /\ req' = [NotAlone(req) EXCEPT ![p] =
                          [r0 EXCEPT !.pc = "insert",
                                     !.created_at = created_at_now(t)]]
            /\ UNCHANGED <<last, webhook_requests>>
    /\ UNCHANGED <<collector_vars, call, webhook_secret, phase, table_exists, messages, db_writer,
                   not_dup_returns>>

\* a table whose key is not declared PRIMARY KEY
PrimaryKeyNotEnforced(rows, id) == FALSE

\* the PRIMARY KEY constraint of init_schema: the INSERT raises
\* sqlite3.IntegrityError when a row with the key is stored
PrimaryKeyViolated(rows, id) == RowsWithId(rows, id) # {}

\* an INSERT that does not wait for the write lock
WriteLockIgnored(w) == TRUE

\* the INSERT takes SQLite's write lock, which it gets only when no other
\* connection holds it (w: the holder, 0 when free)
WriteLockFree(w) == w = 0

\* INSERT OR REPLACE: the stored row is overwritten
ReplaceOnConflict(rows, row) ==
    [i \in 1..Len(rows) |->
        IF rows[i].message_id = row.message_id THEN row ELSE rows[i]]

\* the table after an INSERT that raised IntegrityError: the statement has
\* no effect
AfterIntegrityError(rows, row) == rows

\* the table after the INSERT is committed
AfterCommit(rows, row) == Append(rows, row)

NewRow(r) ==
    [message_id |-> r.body.payload.message_id, from |-> r.body.payload.from,
     to |-> r.body.payload.to, ts |-> r.body.payload.ts,
     text |-> r.body.payload.text, created_at |-> r.created_at]

\* webhook, lines 187-196: record the result of insert_message and answer
RecordResult(r, is_duplicate) ==
    [Answered(r, 200) EXCEPT
        !.webhook_dup = is_duplicate,
        !.webhook_result = IF is_duplicate THEN "duplicate" ELSE "created"]

\* insert_message: connect and execute the INSERT; a duplicate key raises
\* IntegrityError, the connection is closed and (True, True) is returned
InsertExecute(p) ==
    /\ req[p].pc = "insert"
    /\ WriteLockFree(db_writer)
    /\ IF ~table_exists
       THEN \* sqlite3.OperationalError (no such table), nothing catches it
            /\ last' = [Answered(req[p], 500) EXCEPT !.detail = "OperationalError"]
            /\ req' = [req EXCEPT ![p] = IdleReq]
            /\ UNCHANGED <<db_writer, webhook_requests, messages>>
       ELSE IF PrimaryKeyViolated(messages, req[p].body.payload.message_id)
       THEN /\ last' = RecordResult(req[p], TRUE)
            /\ req' = [req EXCEPT ![p] = IdleReq]
            /\ messages' = AfterIntegrityError(messages, NewRow(req[p]))
            /\ webhook_requests' = inc_webhook_request(webhook_requests, "duplicate")
            /\ UNCHANGED db_writer
       ELSE /\ req' = [req EXCEPT ![p] = [@ EXCEPT !.pc = "commit"]]
            /\ db_writer' = p
            /\ UNCHANGED <<last, webhook_requests, messages>>
    /\ UNCHANGED <<collector_vars, call, webhook_secret, phase, table_exists, now,
                   nrequests, not_dup_returns>>

\* insert_message: conn.commit() and return (True, False)
InsertCommit(p) ==
    /\ req[p].pc = "commit"
    /\ messages' = AfterCommit(messages, NewRow(req[p]))
    /\ not_dup_returns' =
          [not_dup_returns EXCEPT ![req[p].body.payload.message_id] = @ + 1]
    /\ db_writer' = 0
    /\ last' = [RecordResult(req[p], FALSE) EXCEPT !.inserted = TRUE]
    /\ req' = [req EXCEPT ![p] = IdleReq]
    /\ webhook_requests' = inc_webhook_request(webhook_requests, "created")
    /\ UNCHANGED <<collector_vars, call, webhook_secret, phase, table_exists, now, nrequests>>

\* query strings of GET /messages: no parameter, parameters in range, a
\* limit above the range
ListQueries ==
    { [from_filter |-> None, since |-> None, q |-> None],
      [limit |-> 1, offset |-> 1, from_filter |-> None, since |-> TS_0900, q |-> None],
      [limit |-> 2, offset |-> 0, from_filter |-> P1, since |-> None, q |-> HiLower],
      [limit |-> 101, from_filter |-> None, since |-> None, q |-> None] }

\* list_messages
ListMessages(a) ==
    /\ Receive
    /\ LET res == list_messages(table_exists, messages, a) IN
       last' = [Answered(Arrival("/messages"), res.status) EXCEPT
                   !.query = a, !.detail = res.detail, !.resp = res]
    /\ req' = NotAlone(req)
    /\ UNCHANGED <<collector_vars, call, webhook_secret, phase, table_exists, messages, db_writer,
                   now, webhook_requests, not_dup_returns>>

\* get_stats (the endpoint)
GetStats ==
    /\ Receive
    /\ IF ~table_exists
       THEN last' = [Answered(Arrival("/stats"), 500) EXCEPT !.detail = "OperationalError"]
       ELSE \E st \in get_stats(messages) :
               last' = [Answered(Arrival("/stats"), 200) EXCEPT !.resp = st]
    /\ req' = NotAlone(req)
    /\ UNCHANGED <<collector_vars, call, webhook_secret, phase, table_exists, messages, db_writer,
                   now, webhook_requests, not_dup_returns>>

\* liveness
Liveness ==
    /\ Receive
    /\ last' = Answered(Arrival("/health/live"), 200)
    /\ req' = NotAlone(req)
    /\ UNCHANGED <<collector_vars, call, webhook_secret, phase, table_exists, messages, db_writer,
                   now, webhook_requests, not_dup_returns>>

\* readiness (fault: the storage access made by is_ready fails)
Readiness(fault) ==
    /\ Receive
    /\ LET r0 == Arrival("/health/ready")
           ready == is_ready(table_exists, fault)
       IN last' = IF ~Truthy(webhook_secret)
                  THEN [Answered(r0, 503) EXCEPT
                           !.detail = "WEBHOOK_SECRET not configured"]
                  ELSE IF ready = "raise"
                  THEN \* nothing catches the exception
                       [Answered(r0, 500) EXCEPT
                           !.detail = "DatabaseError",
                           !.resp = [storage_fault |-> fault]]
                  ELSE IF ready = "False"
                  THEN [Answered(r0, 503) EXCEPT
                           !.detail = "Database not ready",
                           !.resp = [storage_fault |-> fault]]
                  ELSE [Answered(r0, 200) EXCEPT
                           !.resp = [storage_fault |-> fault, status |-> "ok"]]
    /\ req' = NotAlone(req)
    /\ UNCHANGED <<collector_vars, call, webhook_secret, phase, table_exists, messages, db_writer,
                   now, webhook_requests, not_dup_returns>>

\* metrics (the endpoint): export reads the counters
MetricsExport ==
    /\ Receive
    /\ last' = [Answered(Arrival("/metrics"), 200) EXCEPT !.resp = webhook_requests]
    /\ req' = NotAlone(req)
    /\ UNCHANGED <<collector_vars, call, webhook_secret, phase, table_exists, messages, db_writer,
                   now, webhook_requests, not_dup_returns>>

\* the requests a client sends to POST /webhook: every body with the
\* signature made with the secret "s3", the other header values with a
\* valid body, and a wrong signature with an invalid body and with bytes
\* that are not JSON
WebhookInputs ==
    { <<b, HmacSha256Hex(Sec, b)>> : b \in Bodies }
    \cup { <<JsonBody(Base), sg>> : sg \in {None, <<>>, SigZeros, SigNonAscii} }
    \cup { <<b, SigZeros>> : b \in {JsonBody([Base EXCEPT !.to = NoPlus]), BadJson} }

Next ==
    \/ Startup
    \/ \E p \in Procs : \E in \in WebhookInputs : \E t \in now..MaxClock :
          WebhookBegin(p, in[1], in[2], t)
    \/ \E p \in Procs : InsertExecute(p)
    \/ \E p \in Procs : InsertCommit(p)
    \/ \E a \in ListQueries : ListMessages(a)
    \/ GetStats
    \/ Liveness
    \/ \E fault \in BOOLEAN : Readiness(fault)
    \/ MetricsExport

Spec == Init /\ [][Next]_vars

(***************************************************************************)
(* Database.get_messages and list_messages taken alone: every store        *)
(* content (rows valid for WebhookMessage, distinct message_id, any        *)
(* insertion order), every call.                                           *)
(***************************************************************************)
\* "m" sorts before "m1", which sorts before "m2"
QueryIds == {<<109>>, M1, M2}

RowVariants ==
    { [from |-> P1, ts |-> TS_1000, text |-> Hi],
      [from |-> P2, ts |-> TS_0900, text |-> None],
      [from |-> P1, ts |-> TS_0900, text |-> AUnderB],
      [from |-> P2, ts |-> TS_1000, text |-> HiLower] }

QueryRows ==
    { [message_id |-> id, from |-> v.from, to |-> P9, ts |-> v.ts,
       text |-> v.text, created_at |-> created_at_now(0)] :
      id \in QueryIds, v \in RowVariants }

StoreContents ==
    UNION { { s \in [1..n -> QueryRows] :
                \A i, j \in 1..n : i # j => s[i].message_id # s[j].message_id } :
            n \in 0..MaxRows }

QueryLimits == {1, 2, 100}
QueryOffsets == 0..MaxRows
QueryFroms == {None, <<>>, P1}
QuerySinces == {None, TS_1000}
QueryTexts == {None, HiLower, <<37>>, <<95>>}

ServerAtRest ==
    /\ webhook_secret = Sec
    /\ phase = "serving"
    /\ table_exists = TRUE
    /\ db_writer = 0
    /\ now = 0
    /\ req = [p \in Procs |-> IdleReq]
    /\ last = IdleReq
    /\ webhook_requests = [o \in Outcomes |-> 0]
    /\ nrequests = 0
    /\ not_dup_returns = [id \in MessageIds |-> 0]
    /\ CollectorInit

InitQuery ==
    /\ ServerAtRest
    /\ messages \in StoreContents
    /\ call = NoCall

CallGetMessages(limit, offset, from_filter, since, q) ==
    /\ call.op = "none"
    /\ call' = [op |-> "get_messages",
                args |-> [limit |-> limit, offset |-> offset,
                          from_filter |-> from_filter, since |-> since, q |-> q],
                result |-> get_messages(messages, limit, offset, from_filter, since, q)]
    /\ UNCHANGED <<webhook_secret, phase, table_exists, messages, db_writer,
                   now, req, last, webhook_requests, nrequests, not_dup_returns,
                   collector_vars>>

\* query strings of GET /messages: limit and offset absent, in range, at
\* and beyond the ends of the range
ListLimits == {0, 1, 100, 101}
ListOffsets == {-1, 0, 1}

ListQueryStrings ==
    LET filters == {[from_filter |-> f, since |-> None, q |-> None] : f \in {None, P1}}
        limits == {<<>>} \cup {[limit |-> l] : l \in ListLimits}
        offsets == {<<>>} \cup {[offset |-> o] : o \in ListOffsets}
    IN {l @@ o @@ f : l \in limits, o \in offsets, f \in filters}

\* GET /messages answered on a store at rest
CallListMessages(a) ==
    /\ call.op = "none"
    /\ call' = [op |-> "list_messages", args |-> a,
                result |-> list_messages(table_exists, messages, a)]
    /\ UNCHANGED <<webhook_secret, phase, table_exists, messages, db_writer,
                   now, req, last, webhook_requests, nrequests, not_dup_returns,
                   collector_vars>>

NextQuery ==
    \/ \E limit \in QueryLimits : \E offset \in QueryOffsets :
       \E from_filter \in QueryFroms : \E since \in QuerySinces : \E q \in QueryTexts :
          CallGetMessages(limit, offset, from_filter, since, q)
    \/ \E a \in ListQueryStrings : CallListMessages(a)
    \* get_messages called directly with a limit outside the range that
    \* GET /messages accepts
    \/ \E limit \in {-1, MinLimit - 1, MaxLimit + 1} :
       \E offset \in {MinOffset - 1, 0, 1} : \E from_filter \in {None, P1} :
          CallGetMessages(limit, offset, from_filter, None, None)
    \* and with an offset outside it
    \/ \E limit \in {1, 2} : \E offset \in {MinOffset - 1} :
       \E from_filter \in {None, P1} :
          CallGetMessages(limit, offset, from_filter, None, None)

SpecQuery == InitQuery /\ [][NextQuery]_vars

(***************************************************************************)
(* verify_signature taken alone: every secret, body and signature string.  *)
(***************************************************************************)
\* a second secret, "k"
OtherSecret == <<107>>

VerifySecrets == {Sec, OtherSecret}

VerifySignatures(body) ==
    (Signatures(body) \ {None}) \cup {HmacSha256Hex(OtherSecret, body)}

InitVerify ==
    /\ ServerAtRest
    /\ messages = <<>>
    /\ call = NoCall

CallVerifySignature(secret, body, signature) ==
    /\ call.op = "none"
    /\ call' = [op |-> "verify_signature",
                args |-> [secret |-> secret, body |-> body, signature |-> signature],
                result |-> verify_signature(secret, body, signature)]
    /\ UNCHANGED <<webhook_secret, phase, table_exists, messages, db_writer,
                   now, req, last, webhook_requests, nrequests, not_dup_returns,
                   collector_vars>>

NextVerify ==
    \/ \E secret \in VerifySecrets : \E body \in Bodies :
       \E signature \in VerifySignatures(body) :
          CallVerifySignature(secret, body, signature)
    \* the secret absent or empty
    \/ \E secret \in {None, <<>>} : \E body \in Bodies :
       \E signature \in VerifySignatures(body) \cup {None, <<>>}
                         \cup {HmacSha256Hex(<<>>, body)} :
          CallVerifySignature(secret, body, signature)
    \* the signature absent or empty
    \/ \E secret \in VerifySecrets : \E body \in Bodies :
       \E signature \in {None, <<>>} :
          CallVerifySignature(secret, body, signature)

SpecVerify == InitVerify /\ [][NextVerify]_vars

(***************************************************************************)
(* Database.get_stats taken alone: the store contents of get_messages and  *)
(* stores with as many senders as the top-senders list holds, and more.    *)
(***************************************************************************)
MaxSenders == 12

\* "+01", "+02", ... and "m001", "m002", ...
SenderNo(j) == <<43, 48 + (j \div 10), 48 + (j % 10)>>
MessageNo(k) == <<109, 48 + (k \div 100), 48 + ((k \div 10) % 10), 48 + (k % 10)>>

\* number of rows of senders 1..j: sender j has j rows ("distinct"), or
\* senders 1 and 2 have one row and sender j > 2 has j - 1 rows ("tie")
RowsUpTo(profile, j) ==
    IF j = 0 THEN 0
    ELSE IF profile = "distinct" THEN (j * (j + 1)) \div 2
    ELSE 1 + ((j - 1) * j) \div 2

\* the store of n senders, its rows inserted by ascending or by descending
\* sender
ManySendersStore(n, profile, ascending) ==
    LET total == RowsUpTo(profile, n)
        sender(k) == CHOOSE j \in 1..n :
                        RowsUpTo(profile, j - 1) < k /\ k <= RowsUpTo(profile, j)
        row(k) == [message_id |-> MessageNo(k), from |-> SenderNo(sender(k)),
                   to |-> P9, ts |-> IF k % 2 = 0 THEN TS_1000 ELSE TS_0900,
                   text |-> Hi, created_at |-> created_at_now(0)]
    IN [i \in 1..total |-> row(IF ascending THEN i ELSE total + 1 - i)]

ManySendersStores ==
    { ManySendersStore(n, profile, ascending) :
        n \in (TopSendersLimit - 1)..MaxSenders,
        profile \in {"distinct", "tie"}, ascending \in BOOLEAN }

InitStats ==
    /\ ServerAtRest
    /\ messages \in StoreContents \cup ManySendersStores
    /\ call = NoCall

CallGetStats ==
    /\ call.op = "none"
    /\ \E st \in get_stats(messages) :
          call' = [op |-> "get_stats", result |-> st]
    /\ UNCHANGED <<webhook_secret, phase, table_exists, messages, db_writer,
                   now, req, last, webhook_requests, nrequests, not_dup_returns,
                   collector_vars>>

NextStats == CallGetStats

SpecStats == InitStats /\ [][NextStats]_vars

(***************************************************************************)
(* insert_message called alone on a store at rest (SpecInsert).            *)
(***************************************************************************)
\* the NOT NULL constraints of init_schema on from_msisdn, to_msisdn and
\* ts (created_at is always given)
NotNullViolated(row) == row.from = None \/ row.to = None \/ row.ts = None

\* insert_message: OperationalError when the table is missing surfaces;
\* `except sqlite3.IntegrityError` answers (True, True) for every
\* constraint the INSERT violates; else the row is committed
insert_message(exists, rows, message_id, from_msisdn, to_msisdn, ts, text, t) ==
    LET row == [message_id |-> message_id, from |-> from_msisdn,
                to |-> to_msisdn, ts |-> ts, text |-> text,
                created_at |-> created_at_now(t)]
    IN IF ~exists
       THEN [raised |-> "OperationalError", rows |-> rows]
       ELSE IF PrimaryKeyViolated(rows, message_id) \/ NotNullViolated(row)
       THEN [returned |-> <<TRUE, TRUE>>, rows |-> AfterIntegrityError(rows, row)]
       ELSE [returned |-> <<TRUE, FALSE>>, rows |-> AfterCommit(rows, row)]

\* a store of at most two rows, or no table at all
InitInsert ==
    /\ webhook_secret = Sec
    /\ phase = "serving"
    /\ table_exists \in BOOLEAN
    /\ messages \in IF table_exists THEN {st \in StoreContents : Len(st) <= 2}
                    ELSE {<<>>}
    /\ db_writer = 0
    /\ now = 0
    /\ req = [p \in Procs |-> IdleReq]
    /\ last = IdleReq
    /\ webhook_requests = [o \in Outcomes |-> 0]
    /\ nrequests = 0
    /\ not_dup_returns = [id \in MessageIds |-> 0]
    /\ CollectorInit
    /\ call = NoCall

CallInsertMessage(message_id, from_msisdn, to_msisdn, ts, text) ==
    /\ call.op = "none"
    /\ LET res == insert_message(table_exists, messages, message_id, from_msisdn,
                                 to_msisdn, ts, text, now)
       IN /\ messages' = res.rows
          /\ call' = [op |-> "insert_message",
                      args |-> [message_id |-> message_id, from_msisdn |-> from_msisdn,
                                to_msisdn |-> to_msisdn, ts |-> ts, text |-> text],
                      before |-> messages,
                      result |-> res]
    /\ UNCHANGED <<webhook_secret, phase, table_exists, db_writer,
                   now, req, last, webhook_requests, nrequests, not_dup_returns,
                   collector_vars>>

NextInsert ==
    \E message_id \in {M1, M2} : \E from_msisdn \in {P1, None} :
    \E to_msisdn \in {P9, None} : \E ts \in {TS_1000, None} : \E text \in {Hi, None} :
       CallInsertMessage(message_id, from_msisdn, to_msisdn, ts, text)

SpecInsert == InitInsert /\ [][NextInsert]_vars

(***************************************************************************)
(* get_stats and get_messages query by query, while other requests commit  *)
(* rows (SpecReads).  Each cursor.execute of a SELECT reads the rows       *)
(* committed when it runs: the connection opens no transaction around the  *)
(* queries of one call.  call holds the call in progress: the query to run *)
(* next (pc) and the values read so far.                                   *)
(***************************************************************************)
InitReads ==
    /\ ServerAtRest
    /\ messages = <<>>
    /\ call = NoCall

\* insert_message of another request commits a row
OtherRequestCommits(row) ==
    /\ Len(messages) < MaxRows
    /\ ~PrimaryKeyViolated(messages, row.message_id)
    /\ messages' = AfterCommit(messages, row)
    /\ UNCHANGED <<webhook_secret, phase, table_exists, db_writer,
                   now, req, last, webhook_requests, nrequests, not_dup_returns,
                   call, collector_vars>>

\* get_stats: SELECT COUNT(*)
StatsTotal ==
    /\ call.op = "none"
    /\ call' = [op |-> "get_stats", pc |-> "senders_count",
                total_messages |-> CountRows(messages)]
    /\ UNCHANGED <<webhook_secret, phase, table_exists, messages, db_writer,
                   now, req, last, webhook_requests, nrequests, not_dup_returns,
                   collector_vars>>

\* get_stats: SELECT COUNT(DISTINCT from_msisdn)
StatsSendersCount ==
    /\ call.op = "get_stats" /\ call.pc = "senders_count"
    /\ call' = [op |-> "get_stats", pc |-> "messages_per_sender",
                total_messages |-> call.total_messages,
                senders_count |-> CountDistinctSenders(messages)]
    /\ UNCHANGED <<webhook_secret, phase, table_exists, messages, db_writer,
                   now, req, last, webhook_requests, nrequests, not_dup_returns,
                   collector_vars>>

\* get_stats: the GROUP BY query
StatsPerSender ==
    /\ call.op = "get_stats" /\ call.pc = "messages_per_sender"
    /\ \E g \in GroupsByCountDesc(messages, Senders(messages)) :
          call' = [op |-> "get_stats", pc |-> "first_last",
                   total_messages |-> call.total_messages,
                   senders_count |-> call.senders_count,
                   messages_per_sender |-> SubSeq(g, 1, Min2(Len(g), TopSendersLimit))]
    /\ UNCHANGED <<webhook_secret, phase, table_exists, messages, db_writer,
                   now, req, last, webhook_requests, nrequests, not_dup_returns,
                   collector_vars>>

\* get_stats: SELECT MIN(ts), MAX(ts), and the return
StatsFirstLast ==
    /\ call.op = "get_stats" /\ call.pc = "first_last"
    /\ call' = [op |-> "get_stats", pc |-> "done",
                result |-> [total_messages |-> call.total_messages,
                            senders_count |-> call.senders_count,
                            messages_per_sender |-> call.messages_per_sender,
                            first_message_ts |-> MinTs(messages),
                            last_message_ts |-> MaxTs(messages)]]
    /\ UNCHANGED <<webhook_secret, phase, table_exists, messages, db_writer,
                   now, req, last, webhook_requests, nrequests, not_dup_returns,
                   collector_vars>>

\* get_messages: the count query
MessagesCount(limit, offset, from_filter) ==
    /\ call.op = "none"
    /\ call' = [op |-> "get_messages", pc |-> "page",
                args |-> [limit |-> limit, offset |-> offset,
                          from_filter |-> from_filter, since |-> None, q |-> None],
                total |-> Len(Selected(messages, from_filter, None, None))]
    /\ UNCHANGED <<webhook_secret, phase, table_exists, messages, db_writer,
                   now, req, last, webhook_requests, nrequests, not_dup_returns,
                   collector_vars>>

\* get_messages: the page query, and the return
MessagesPage ==
    /\ call.op = "get_messages" /\ call.pc = "page"
    /\ call' = [op |-> "get_messages", pc |-> "done", args |-> call.args,
                result |-> [messages |->
                               get_messages(messages, call.args.limit, call.args.offset,
                                            call.args.from_filter, None, None).messages,
                            total |-> call.total]]
    /\ UNCHANGED <<webhook_secret, phase, table_exists, messages, db_writer,
                   now, req, last, webhook_requests, nrequests, not_dup_returns,
                   collector_vars>>

NextReads ==
    \/ \E row \in {r \in QueryRows : \/ (r.from = P1 /\ r.ts = TS_1000 /\ r.text = Hi)
                                     \/ (r.from = P2 /\ r.ts = TS_0900 /\ r.text = None)} :
          OtherRequestCommits(row)
    \/ StatsTotal
    \/ StatsSendersCount
    \/ StatsPerSender
    \/ StatsFirstLast
    \/ \E limit \in {1, MaxLimit} : \E offset \in {0, 1} : \E from_filter \in {None, P1} :
          MessagesCount(limit, offset, from_filter)
    \/ MessagesPage

SpecReads == InitReads /\ [][NextReads]_vars

(***************************************************************************)
(* The metrics collector called from several threads (SpecCollector) and   *)
(* by the logging middleware (SpecMiddleware).  A method takes the lock,   *)
(* reads the fields it updates, writes them and releases the lock.         *)
(***************************************************************************)
InitMetrics ==
    /\ ServerAtRest
    /\ messages = <<>>
    /\ call = NoCall

\* the thread enters a method of the collector
StartCall(op, arg, in_request, ms) ==
    [IdleThread EXCEPT !.pc = "acquire", !.op = op, !.arg = arg,
                       !.in_request = in_request, !.ms = ms]

\* a method that does not take the lock
LockIgnored(l) == TRUE

\* `with self._lock`: the lock is acquired when no thread holds it
LockAvailable(l) == l = 0

Acquire(t) ==
    /\ thr[t].pc = "acquire"
    /\ LockAvailable(lock)
    /\ lock' = t
    /\ thr' = [thr EXCEPT ![t].pc = "read"]
    /\ UNCHANGED <<service_vars, webhook_requests, nrequests, http_requests,
                   latency_counts, latency_sum, latency_count, handled, returned>>

\* the method reads the fields it is about to update (export: all of them)
Read(t) ==
    /\ thr[t].pc = "read"
    /\ thr' = [thr EXCEPT ![t].pc = "write",
                          ![t].tmp =
          IF thr[t].op = "inc_http_request" THEN [n |-> http_requests[thr[t].arg]]
          ELSE IF thr[t].op = "inc_webhook_request"
          THEN [n |-> webhook_requests[thr[t].arg]]
          ELSE IF thr[t].op = "observe_latency"
          THEN [sum |-> latency_sum, count |-> latency_count,
                counts |-> latency_counts]
          ELSE [http |-> http_requests, webhook |-> webhook_requests,
                sum |-> latency_sum, count |-> latency_count,
                counts |-> latency_counts]]
    /\ UNCHANGED <<service_vars, webhook_requests, nrequests, lock, http_requests,
                   latency_counts, latency_sum, latency_count, handled, returned>>

\* the per-bucket update without the comparison with the boundary
observe_all_buckets(counts, ms) == [i \in BucketNumbers |-> counts[i] + 1]

\* observe_latency, lines 39-41: every bucket whose boundary is at least
\* the latency is incremented
observe_buckets(counts, ms) ==
    [i \in BucketNumbers |-> IF InBucket(ms, i) THEN counts[i] + 1 ELSE counts[i]]

\* the value export writes on the line of bucket i: the sum of the stored
\* counts of the buckets up to i
ExportedBucket(counts, i) ==
    LET RECURSIVE Sum(_)
        Sum(j) == IF j = 0 THEN 0 ELSE counts[j] + Sum(j - 1)
    IN Sum(i)

\* the characters of a path and of a webhook result
PathChars(path) ==
    CASE path = "/webhook" -> <<47,119,101,98,104,111,111,107>>
      [] path = "/messages" -> <<47,109,101,115,115,97,103,101,115>>
      [] path = "/stats" -> <<47,115,116,97,116,115>>
      [] path = "/health/ready" -> <<47,104,101,97,108,116,104,47,114,101,97,100,121>>
      [] path = "/health/live" -> <<47,104,101,97,108,116,104,47,108,105,118,101>>
      [] path = "/metrics" -> <<47,109,101,116,114,105,99,115>>

ResultChars(result) ==
    CASE result = "created" -> <<99,114,101,97,116,101,100>>
      [] result = "duplicate" -> <<100,117,112,108,105,99,97,116,101>>
      [] result = "invalid_signature" ->
            <<105,110,118,97,108,105,100,95,115,105,103,110,97,116,117,114,101>>
      [] result = "validation_error" ->
            <<118,97,108,105,100,97,116,105,111,110,95,101,114,114,111,114>>

\* str(n) for n >= 0
RECURSIVE Digits(_)
Digits(n) == IF n < 10 THEN <<48 + n>> ELSE Digits(n \div 10) \o <<48 + (n % 10)>>

\* the dict key f'{path}|{status}' as a string
KeyString(k) == PathChars(k[1]) \o <<124>> \o Digits(k[2])

\* sorted(..., reverse=True) on the http keys
RECURSIVE SortHttpKeysDescending(_)
SortHttpKeysDescending(S) ==
    IF S = {} THEN <<>>
    ELSE LET m == CHOOSE m \in S : \A x \in S : StrLeq(KeyString(x), KeyString(m))
         IN <<m>> \o SortHttpKeysDescending(S \ {m})

\* sorted(self._http_requests.items()): by key string
RECURSIVE SortHttpKeys(_)
SortHttpKeys(S) ==
    IF S = {} THEN <<>>
    ELSE LET m == CHOOSE m \in S : \A x \in S : StrLeq(KeyString(m), KeyString(x))
         IN <<m>> \o SortHttpKeys(S \ {m})

\* sorted(self._webhook_requests.items()): by result
RECURSIVE SortResults(_)
SortResults(S) ==
    IF S = {} THEN <<>>
    ELSE LET m == CHOOSE m \in S : \A x \in S : StrLeq(ResultChars(m), ResultChars(x))
         IN <<m>> \o SortResults(S \ {m})

\* the text export returns, line by line: a comment line with its text, or
\* a sample line with its metric name, its label values and its value
\* (the sum with two decimals)
ExportLines(snapshot) ==
    LET keys == SortHttpKeys({k \in DOMAIN snapshot.http : snapshot.http[k] > 0})
        results == SortResults({o \in DOMAIN snapshot.webhook : snapshot.webhook[o] > 0})
    IN << [comment |-> "# HELP http_requests_total Total HTTP requests by path and status"],
          [comment |-> "# TYPE http_requests_total counter"] >>
       \o [i \in 1..Len(keys) |->
             [name |-> "http_requests_total", path |-> PathChars(keys[i][1]),
              status |-> Digits(keys[i][2]), value |-> snapshot.http[keys[i]]]]
       \o << [comment |-> "# HELP webhook_requests_total Total webhook requests by result"],
             [comment |-> "# TYPE webhook_requests_total counter"] >>
       \o [i \in 1..Len(results) |->
             [name |-> "webhook_requests_total", result |-> ResultChars(results[i]),
              value |-> snapshot.webhook[results[i]]]]
       \o << [comment |-> "# HELP request_latency_ms_bucket Request latency histogram in milliseconds"],
             [comment |-> "# TYPE request_latency_ms_bucket histogram"] >>
       \o [i \in BucketNumbers |->
             [name |-> "request_latency_ms_bucket",
              \* str(int(bucket)), "+Inf" for the last bucket
              le |-> IF i > Len(Buckets) THEN <<43,73,110,102>>
                     ELSE Digits(Buckets[i]),
              value |-> ExportedBucket(snapshot.counts, i)]]
       \o << [name |-> "request_latency_ms_sum",
              value |-> Digits(snapshot.sum) \o <<46,48,48>>],
             [name |-> "request_latency_ms_count", value |-> snapshot.count] >>

\* export: the text and the values written, from what was read under the
\* lock
export(snapshot) ==
    [text |-> ExportLines(snapshot),
     http |-> snapshot.http, webhook |-> snapshot.webhook,
     buckets |-> [i \in BucketNumbers |-> ExportedBucket(snapshot.counts, i)],
     sum |-> snapshot.sum, count |-> snapshot.count]

\* the method writes, releases the lock and returns; in a request the
\* middleware goes on with observe_latency, then ends
Write(t) ==
    LET op == thr[t].op
        arg == thr[t].arg
        tmp == thr[t].tmp
    IN
    /\ thr[t].pc = "write"
    /\ lock' = 0
    /\ http_requests' = IF op = "inc_http_request"
                        THEN [http_requests EXCEPT ![arg] = tmp.n + 1]
                        ELSE http_requests
    /\ webhook_requests' =
          IF op = "inc_webhook_request"
          THEN inc_webhook_request([webhook_requests EXCEPT ![arg] = tmp.n], arg)
          ELSE webhook_requests
    /\ IF op = "observe_latency"
       THEN /\ latency_sum' = tmp.sum + arg
            /\ latency_count' = tmp.count + 1
            /\ latency_counts' = observe_buckets(tmp.counts, arg)
       ELSE UNCHANGED <<latency_sum, latency_count, latency_counts>>
    /\ call' = IF op = "export"
               THEN [op |-> "export", result |-> export(tmp)]
               ELSE call
    /\ LET r == [returned EXCEPT
                   !.overlapped = IF \E u \in Threads \ {t} : thr[u].pc # "idle"
                                  THEN @ + 1 ELSE @,
                   !.since_export = @ + 1]
       IN returned' =
          IF op = "inc_http_request" THEN [r EXCEPT !.http[arg] = @ + 1]
          ELSE IF op = "inc_webhook_request" THEN [r EXCEPT !.webhook[arg] = @ + 1]
          ELSE IF op = "observe_latency" THEN [r EXCEPT !.latency[arg] = @ + 1]
          ELSE [r EXCEPT !.export = @ + 1, !.since_export = 0]
    /\ IF thr[t].in_request /\ op = "inc_http_request"
       THEN /\ thr' = [thr EXCEPT ![t] =
                         [StartCall("observe_latency", thr[t].ms, TRUE, 0)
                            EXCEPT !.key = thr[t].key]]
            /\ UNCHANGED handled
       ELSE /\ thr' = [thr EXCEPT ![t] = IdleThread]
            /\ handled' = IF thr[t].in_request
                          THEN [handled EXCEPT ![thr[t].key] = @ + 1]
                          ELSE handled
    /\ UNCHANGED <<webhook_secret, phase, table_exists, messages, db_writer, now,
                   req, last, not_dup_returns, nrequests>>

\* the calls a thread may make
CollectorCalls ==
    {[op |-> "inc_http_request", arg |-> k] : k \in HttpKeys}
    \cup {[op |-> "inc_webhook_request", arg |-> o] : o \in {"created", "duplicate"}}
    \cup {[op |-> "observe_latency", arg |-> ms] : ms \in Latencies}
    \cup {[op |-> "export", arg |-> <<>>]}

\* a thread calls a method of the collector
CollectorCall(t, c) ==
    /\ thr[t].pc = "idle"
    /\ nrequests < MaxCalls
    /\ nrequests' = nrequests + 1
    /\ thr' = [thr EXCEPT ![t] = StartCall(c.op, c.arg, FALSE, 0)]
    /\ UNCHANGED <<service_vars, webhook_requests, lock, http_requests,
                   latency_counts, latency_sum, latency_count, handled, returned>>

NextCollector ==
    \/ \E t \in Threads : \E c \in CollectorCalls : CollectorCall(t, c)
    \/ \E t \in Threads : Acquire(t)
    \/ \E t \in Threads : Read(t)
    \/ \E t \in Threads : Write(t)

SpecCollector == InitMetrics /\ [][NextCollector]_vars

\* logging_middleware around a handler with outcome o that took ms
\* milliseconds: call_next returns the response, or raises the handler's
\* exception, and then the lines after it are not run
Request(t, o, ms) ==
    /\ thr[t].pc = "idle"
    /\ nrequests < MaxCalls
    /\ nrequests' = nrequests + 1
    /\ webhook_requests' = IF o.result # ""
                           THEN inc_webhook_request(webhook_requests, o.result)
                           ELSE webhook_requests
    /\ IF o.raised
       THEN /\ handled' = [handled EXCEPT ![HttpKey(o.path, o.status)] = @ + 1]
            /\ UNCHANGED thr
       ELSE /\ thr' = [thr EXCEPT ![t] =
                         [StartCall("inc_http_request", HttpKey(o.path, o.status),
                                    TRUE, ms)
                            EXCEPT !.key = HttpKey(o.path, o.status)]]
            /\ UNCHANGED handled
    /\ UNCHANGED <<service_vars, lock, http_requests, latency_counts, latency_sum,
                   latency_count, returned>>

NextMiddleware ==
    \/ \E t \in Threads : \E o \in HandlerOutcomes : \E ms \in Latencies :
          Request(t, o, ms)
    \/ \E t \in Threads : Acquire(t)
    \/ \E t \in Threads : Read(t)
    \/ \E t \in Threads : Write(t)

SpecMiddleware == InitMetrics /\ [][NextMiddleware]_vars

(***************************************************************************)
(* Properties of the running service (specification Spec).                 *)
(***************************************************************************)
LastWebhook == last.pc = "done" /\ last.path = "/webhook"

\* the X-Signature header is the digest of the body under the configured secret
CorrectlySigned(r) ==
    /\ Truthy(webhook_secret)
    /\ r.x_signature = HmacSha256Hex(webhook_secret, r.body)

StoredWithId(id) == RowsWithId(messages, id)

\* C1: a valid, correctly signed payload sent when no other request is being
\* handled is answered 200 and leaves exactly one row with its message_id;
\* it is reported created (and inserts) when no row with the id was stored on
\* arrival, and duplicate (and inserts nothing) when one was.
C1_Idempotent ==
    (/\ LastWebhook
     /\ last.alone
     /\ CorrectlySigned(last)
     /\ last.body.json
     /\ WebhookMessage(last.body.payload))
    => /\ last.status = 200
       /\ Cardinality(StoredWithId(last.body.payload.message_id)) = 1
       /\ (last.existed => (last.webhook_dup /\ ~last.inserted
                            /\ last.webhook_result = "duplicate"))
       /\ (~last.existed => (~last.webhook_dup /\ last.inserted
                             /\ last.webhook_result = "created"))

\* the second of two identical calls has been answered: the row stored by
\* the first is the payload, and the second was reported duplicate
C1_Witness ==
    /\ LastWebhook /\ last.alone /\ CorrectlySigned(last)
    /\ last.existed /\ last.webhook_dup /\ last.status = 200
    /\ \E i \in 1..Len(messages) :
          MessageDict(messages[i]) = last.body.payload

C3_RowsImmutable ==
    [][/\ Len(messages') >= Len(messages)
       /\ \A i \in 1..Len(messages) : messages'[i] = messages[i]]_vars

\* a replay of a stored message_id with other field values was answered,
\* and the row still holds the values of the first insert
C3_Witness ==
    /\ LastWebhook /\ last.webhook_dup
    /\ \E i \in 1..Len(messages) :
          /\ messages[i].message_id = last.body.payload.message_id
          /\ messages[i].from # last.body.payload.from
          /\ messages[i].ts # last.body.payload.ts
          /\ messages[i].text # last.body.payload.text

\* C4: a webhook request whose X-Signature is missing, empty or not the
\* digest of the body, or that arrives while no secret is configured, is
\* answered 401 "invalid signature" with outcome invalid_signature and
\* stores nothing.
C4_AuthFailure ==
    (/\ LastWebhook
     /\ ~CorrectlySigned(last))
    => /\ last.status = 401
       /\ last.detail = "invalid signature"
       /\ last.webhook_result = "invalid_signature"
       /\ ~last.inserted

\* "+" followed by one or more digits 0-9
PlusDigits(v) ==
    /\ v # None
    /\ Len(v) >= 2
    /\ v[1] = 43
    /\ \A i \in 2..Len(v) : v[i] \in 48..57

\* the body is not JSON or breaks one of the field constraints
BreaksConstraint(b) ==
    \/ ~b.json
    \/ b.payload.message_id = None \/ b.payload.message_id = <<>>
    \/ ~PlusDigits(b.payload.from)
    \/ ~PlusDigits(b.payload.to)
    \/ b.payload.ts = None \/ ~validate_ts(b.payload.ts)
    \/ (b.payload.text # None /\ Len(b.payload.text) > 4096)

\* C6: a correctly signed webhook request whose body is not JSON or breaks
\* a field constraint is answered 422 with outcome validation_error and
\* stores nothing; one that breaks none, with text absent or empty, is
\* accepted.
C6_ValidationFailure ==
    (LastWebhook /\ CorrectlySigned(last))
    => /\ BreaksConstraint(last.body)
          => (/\ last.status = 422
              /\ last.webhook_result = "validation_error"
              /\ ~last.inserted)
       /\ (~BreaksConstraint(last.body) /\ last.body.payload.text \in {None, <<>>})
          => last.status = 200

StatusMatchesOutcome(r) ==
    /\ r.status = 401 => r.webhook_result = "invalid_signature"
    /\ r.status = 422 => r.webhook_result = "validation_error"
    /\ r.status = 200 => r.webhook_result \in {"created", "duplicate"}

\* the step answers a webhook request: on arrival (no slot taken), or when
\* the slot handling it is freed
WebhookAnswered ==
    \/ /\ nrequests' # nrequests
       /\ last'.path = "/webhook"
       /\ \A p \in Procs : req'[p].pc = req[p].pc
    \/ \E p \in Procs : InFlight(req[p]) /\ req'[p].pc = "idle"

\* C7: a step that answers a webhook request with 200, 401 or 422 adds one
\* to exactly one outcome counter, the one of the outcome that matches the
\* status; the outcome is created exactly when the step committed the
\* request's row and duplicate exactly when a row with the message_id was
\* stored before the step; and the outcome counters change in no other step.
C7_OneOutcomePerRequest ==
    [][/\ (/\ WebhookAnswered
           /\ last'.status \in {200, 401, 422})
          => /\ webhook_requests' =
                   [webhook_requests EXCEPT ![last'.webhook_result] = @ + 1]
             /\ StatusMatchesOutcome(last')
             /\ (last'.webhook_result = "created"
                   <=> (/\ last'.inserted
                        /\ Len(messages') = Len(messages) + 1
                        /\ messages'[Len(messages')].message_id
                              = last'.body.payload.message_id))
             /\ (last'.webhook_result = "duplicate"
                   <=> (/\ last'.status = 200
                        /\ StoredWithId(last'.body.payload.message_id) # {}))
       /\ (webhook_requests' # webhook_requests) => WebhookAnswered]_vars

\* a created and a duplicate outcome have both been counted
C7_Witness ==
    /\ LastWebhook /\ last.status = 200 /\ last.webhook_result = "duplicate"
    /\ webhook_requests["created"] = 1
    /\ webhook_requests["duplicate"] = 1
    /\ webhook_requests["invalid_signature"] = 1

(***************************************************************************)
(* Properties of verify_signature (specification SpecVerify).              *)
(***************************************************************************)
\* C5: verify_signature(S, B, sig) returns true when sig is the hex digest
\* of B under S and returns false for every other string sig.
C5_VerifyCorrect ==
    call.op = "verify_signature"
    => LET digest == HmacSha256Hex(call.args.secret, call.args.body) IN
       /\ call.args.signature = digest => call.result = "True"
       /\ call.args.signature # digest => call.result = "False"

(***************************************************************************)
(* Properties of get_messages (specification SpecQuery).                   *)
(***************************************************************************)
\* (ts, message_id) of a is at most that of b
KeyLeq(a, b) ==
    \/ StrLess(a.ts, b.ts)
    \/ (a.ts = b.ts /\ StrLeq(a.message_id, b.message_id))

\* the place of the row with the given id in the table
RowIndex(id) == CHOOSE i \in 1..Len(messages) : messages[i].message_id = id

\* C8: the rows get_messages returns are stored rows that match the filters,
\* in ascending order of ts and, for equal ts, of message_id, whatever the
\* order they were inserted in.
C8_Ordered ==
    call.op = "get_messages"
    => LET m == call.result.messages IN
       /\ \A i, j \in 1..Len(m) : i < j => (KeyLeq(m[i], m[j]) /\ m[i] # m[j])
       /\ \A i \in 1..Len(m) :
             \E k \in 1..Len(messages) :
                /\ m[i] = MessageDict(messages[k])
                /\ Where(messages[k], call.args.from_filter, call.args.since, call.args.q)

\* two rows of equal ts were returned in the order opposite to insertion
C8_Witness ==
    /\ call.op = "get_messages"
    /\ LET m == call.result.messages IN
       \E i, j \in 1..Len(m) :
          /\ i < j
          /\ m[i].ts = m[j].ts
          /\ RowIndex(m[i].message_id) > RowIndex(m[j].message_id)

\* the stored rows that match the filters of the call
Matching(a) ==
    {k \in 1..Len(messages) : Where(messages[k], a.from_filter, a.since, a.q)}

\* C9: for limit in [1,100] and offset >= 0, total is the number of stored
\* rows matching the filters (whatever limit and offset), the number of
\* items is min(limit, total - offset), or 0 when offset >= total, and the
\* items are positions offset+1 .. offset+limit of the ordered matching rows.
C9_Pagination ==
    (/\ call.op = "get_messages"
     /\ call.args.limit \in 1..100
     /\ call.args.offset >= 0)
    => LET a == call.args
           r == call.result
           total == Cardinality(Matching(a))
           ordered == OrderBy(Selected(messages, a.from_filter, a.since, a.q))
       IN /\ r.total = total
          /\ Len(r.messages) = (IF a.offset >= total THEN 0
                                ELSE Min2(a.limit, total - a.offset))
          /\ \A k \in 1..Len(r.messages) :
                r.messages[k] = MessageDict(ordered[a.offset + k])

\* a page from the middle of three matching rows, under a filter
C9_Witness ==
    /\ call.op = "get_messages"
    /\ call.args.limit = 1 /\ call.args.offset = 1
    /\ call.args.since = TS_1000
    /\ Len(messages) = 3
    /\ call.result.total = 2
    /\ Len(call.result.messages) = 1

\* text contains q as a substring, letters compared without case
ContainsText(text, q) ==
    \E i \in 0..(Len(text) - Len(q)) :
       \A k \in 1..Len(q) : Lower(text[i + k]) = Lower(q[k])

MatchesFrom(row, f) == row.from = f
MatchesSince(row, since) == StrLeq(since, row.ts)
MatchesText(row, q) == row.text # None /\ ContainsText(row.text, q)

\* C10: the rows matched are the intersection of the rows matched by each
\* filter given: sender equal to from, ts >= since, text containing q.
C10_FilterIntersection ==
    call.op = "get_messages"
    => LET a == call.args
           all == 1..Len(messages)
           byFrom == IF Truthy(a.from_filter)
                     THEN {k \in all : MatchesFrom(messages[k], a.from_filter)} ELSE all
           bySince == IF Truthy(a.since)
                      THEN {k \in all : MatchesSince(messages[k], a.since)} ELSE all
           byText == IF Truthy(a.q)
                     THEN {k \in all : MatchesText(messages[k], a.q)} ELSE all
           expected == byFrom \cap bySince \cap byText
       IN /\ call.result.total = Cardinality(expected)
          /\ \A i \in 1..Len(call.result.messages) :
                RowIndex(call.result.messages[i].message_id) \in expected

\* C11: with a non-empty q, a row is matched exactly when it passes the
\* other filters and its text is not null and contains q as a literal
\* substring, letters compared without case; a row with null text is never
\* returned.
C11_LiteralSubstring ==
    (call.op = "get_messages" /\ Truthy(call.args.q))
    => LET a == call.args
           expected == {k \in 1..Len(messages) :
                          /\ Where(messages[k], a.from_filter, a.since, None)
                          /\ MatchesText(messages[k], a.q)}
       IN /\ Matching(a) = expected
          /\ call.result.total = Cardinality(expected)
          /\ \A i \in 1..Len(call.result.messages) :
                call.result.messages[i].text # None

\* C12: GET /messages with limit outside [1,100] or offset below 0 is
\* answered 422 and get_messages is not called; every call of get_messages
\* has limit in [1,100] and offset >= 0; otherwise the answer is 200, an
\* omitted limit is 50 and an omitted offset is 0, and the values used are
\* those passed to get_messages and echoed in the response.
C12_ListValidation ==
    call.op = "list_messages"
    => LET a == call.args
           r == call.result
           outOfRange == \/ ("limit" \in DOMAIN a /\ (a.limit < 1 \/ a.limit > 100))
                         \/ ("offset" \in DOMAIN a /\ a.offset < 0)
           limit == IF "limit" \in DOMAIN a THEN a.limit ELSE 50
           offset == IF "offset" \in DOMAIN a THEN a.offset ELSE 0
       IN /\ outOfRange => (r.status = 422 /\ r.store_calls = <<>>)
          /\ \A i \in 1..Len(r.store_calls) :
                /\ r.store_calls[i].limit \in 1..100
                /\ r.store_calls[i].offset >= 0
          /\ ~outOfRange
             => /\ r.status = 200
                /\ r.body.limit = limit /\ r.body.offset = offset
                /\ Len(r.store_calls) = 1
                /\ r.store_calls[1].limit = limit
                /\ r.store_calls[1].offset = offset
                /\ r.body.total = Cardinality(Matching(r.store_calls[1]))
                /\ Len(r.body.data) = Min2(limit, IF offset >= r.body.total THEN 0
                                                  ELSE r.body.total - offset)

\* a request without limit and offset on a store of three rows was answered
\* with all three rows, limit 50 and offset 0
C12_Witness ==
    /\ call.op = "list_messages"
    /\ DOMAIN call.args = {"from_filter", "since", "q"}
    /\ call.result.status = 200
    /\ call.result.body.limit = 50 /\ call.result.body.offset = 0
    /\ Len(messages) = 3 /\ Len(call.result.body.data) = 3

(***************************************************************************)
(* Properties of get_stats.                                                *)
(***************************************************************************)
LastStats == last.pc = "done" /\ last.path = "/stats" /\ last.status = 200

\* C13: after any sequence of webhook calls, total_messages is the number
\* of stored rows, which is the number of message_ids created (replays add
\* nothing), and senders_count is the number of distinct from values of the
\* stored rows; both are 0 on an empty store.
C13_TotalsAndSenders ==
    LastStats
    => /\ last.resp.total_messages = Len(messages)
       /\ last.resp.total_messages
             = Cardinality({id \in MessageIds : not_dup_returns[id] >= 1})
       /\ last.resp.senders_count
             = Cardinality({messages[i].from : i \in 1..Len(messages)})
       /\ messages = <<>>
             => (last.resp.total_messages = 0 /\ last.resp.senders_count = 0)

\* stats asked after a message and its replay: one message, one sender
C13_Witness ==
    /\ LastStats
    /\ webhook_requests["created"] = 1
    /\ webhook_requests["duplicate"] = 1
    /\ last.resp.total_messages = 1
    /\ last.resp.senders_count = 1

\* C14: (specification SpecStats) messages_per_sender has at most 10
\* entries, of distinct senders of the store, all of them when there are at
\* most 10; each count is the number of stored rows of the sender; counts
\* do not increase along the list; no sender left out has a larger count
\* than a listed one.
C14_TopSenders ==
    call.op = "get_stats"
    => LET m == call.result.messages_per_sender
           rowsOf(f) == Cardinality({k \in 1..Len(messages) : messages[k].from = f})
           senders == {messages[k].from : k \in 1..Len(messages)}
           listed == {m[i].from : i \in 1..Len(m)}
       IN /\ Len(m) <= 10
          /\ Len(m) = Min2(10, Cardinality(senders))
          /\ listed \subseteq senders
          /\ \A i, j \in 1..Len(m) : i # j => m[i].from # m[j].from
          /\ \A i \in 1..Len(m) : m[i].count = rowsOf(m[i].from)
          /\ \A i, j \in 1..Len(m) : i < j => m[i].count >= m[j].count
          /\ \A f \in senders \ listed :
                \A i \in 1..Len(m) : rowsOf(f) <= m[i].count

\* more than 10 senders, and the sender left out has as many rows as the
\* last one listed
C14_Witness ==
    /\ call.op = "get_stats"
    /\ Cardinality(Senders(messages)) = 11
    /\ Len(call.result.messages_per_sender) = 10
    /\ \E k \in 1..Len(messages) :
          /\ \A i \in 1..10 : call.result.messages_per_sender[i].from # messages[k].from
          /\ CountFrom(messages, messages[k].from)
                = call.result.messages_per_sender[10].count

RECURSIVE SumCounts(_)
SumCounts(m) == IF m = <<>> THEN 0 ELSE Head(m).count + SumCounts(Tail(m))

\* C15: (specification SpecStats) for every store content, the counts in
\* messages_per_sender sum to total_messages.
C15_SumIsTotal ==
    call.op = "get_stats"
    => SumCounts(call.result.messages_per_sender) = call.result.total_messages

\* C15 amended: the counts sum to total_messages when the store has at most
\* 10 distinct senders, and to total_messages less the rows of the senders
\* left out when it has more.
C15_SumOfListed ==
    call.op = "get_stats"
    => LET m == call.result.messages_per_sender
           listed == {m[i].from : i \in 1..Len(m)}
           leftOut == {k \in 1..Len(messages) : messages[k].from \notin listed}
       IN /\ SumCounts(m) = call.result.total_messages - Cardinality(leftOut)
          /\ Cardinality({messages[k].from : k \in 1..Len(messages)}) <= 10
                => SumCounts(m) = call.result.total_messages

\* ten senders with 55 rows in all, each of them listed
C15_Witness ==
    /\ call.op = "get_stats"
    /\ Cardinality(Senders(messages)) = 10
    /\ Len(messages) = 55
    /\ SumCounts(call.result.messages_per_sender) = 55

\* C16: (specification SpecStats) first_message_ts and last_message_ts are
\* the least and the greatest ts of the stored rows in string order, so
\* first <= last when a row exists; both are null exactly when the store
\* has no rows.
C16_FirstLastTs ==
    call.op = "get_stats"
    => LET first == call.result.first_message_ts
           last_ts == call.result.last_message_ts
           all == {messages[k].ts : k \in 1..Len(messages)}
       IN /\ (first = None) <=> (messages = <<>>)
          /\ (last_ts = None) <=> (messages = <<>>)
          /\ messages # <<>>
             => /\ first \in all /\ \A t \in all : StrLeq(first, t)
                /\ last_ts \in all /\ \A t \in all : StrLeq(t, last_ts)
                /\ StrLeq(first, last_ts)

\* the row inserted first has the greatest ts and the row inserted last
\* the least
C16_Witness ==
    /\ call.op = "get_stats"
    /\ Len(messages) = 3
    /\ call.result.first_message_ts = messages[3].ts
    /\ call.result.last_message_ts = messages[1].ts
    /\ messages[1].ts # messages[3].ts

(***************************************************************************)
(* Properties of the health endpoint.                                      *)
(***************************************************************************)
LastReady == last.pc = "done" /\ last.path = "/health/ready"

\* C17: GET /health/ready is answered 200 with status "ok" exactly when
\* the secret is configured, the table messages exists and the storage
\* access of is_ready does not fail; in every other case, a failing storage
\* access included, it is answered 503 with a detail message (is_ready
\* returned false, nothing was raised).
C17_Readiness ==
    LastReady
    => LET ok == /\ webhook_secret # None /\ webhook_secret # <<>>
                 /\ table_exists
                 /\ ~last.resp.storage_fault
       IN /\ last.status \in {200, 503}
          /\ (last.status = 200) <=> ok
          /\ last.status = 200 => last.resp.status = "ok"
          /\ last.status = 503
                => last.detail \in {"WEBHOOK_SECRET not configured", "Database not ready"}

\* the secret is configured and the table exists, but the storage access
\* failed: 503
C17_Witness ==
    /\ LastReady
    /\ webhook_secret = Sec /\ table_exists
    /\ last.resp.storage_fault
    /\ last.status = 503 /\ last.detail = "Database not ready"

(***************************************************************************)
(* Properties of the metrics (SpecMiddleware, SpecCollector).              *)
(***************************************************************************)
Quiescent == \A t \in Threads : thr[t].pc = "idle"

RECURSIVE SumOver(_, _)
SumOver(f, S) ==
    IF S = {} THEN 0
    ELSE LET k == CHOOSE k \in S : TRUE IN f[k] + SumOver(f, S \ {k})

\* C18: (specification SpecMiddleware) when no request is being handled,
\* the http counter of each (path, status) is the number of requests
\* answered with that path and status, whether a success, 401, 422 or a
\* storage fault, and request_latency_ms_count is the number of requests
\* handled, which is the sum of the http counters.
C18_CountedOnce ==
    Quiescent
    => /\ \A k \in HttpKeys : http_requests[k] = handled[k]
       /\ latency_count = SumOver(handled, HttpKeys)
       /\ latency_count = SumOver(http_requests, HttpKeys)

\* C19: (specification SpecCollector) no step of any method of the
\* collector lowers an http counter, a webhook outcome counter, a latency
\* bucket count or the latency observation count, and no step of export
\* changes any of them.
C19_Monotonic ==
    [][/\ \A k \in HttpKeys : http_requests'[k] >= http_requests[k]
       /\ \A o \in Outcomes : webhook_requests'[o] >= webhook_requests[o]
       /\ \A i \in BucketNumbers : latency_counts'[i] >= latency_counts[i]
       /\ latency_count' >= latency_count
       /\ \A t \in Threads :
             (thr[t].op = "export" /\ thr'[t] # thr[t])
             => /\ http_requests' = http_requests
                /\ webhook_requests' = webhook_requests
                /\ latency_counts' = latency_counts
                /\ latency_count' = latency_count
                /\ latency_sum' = latency_sum]_vars

\* an export returned between two latency observations
C19_Witness ==
    /\ call.op = "export"
    /\ call.result.count = 1
    /\ latency_count = 2
    /\ returned.export = 1

\* the number of returned observe_latency calls, their sum, and how many
\* of them fall in bucket i
ObservationsReturned == SumOver(returned.latency, Latencies)
ObservationsSum == SumOver([ms \in Latencies |-> ms * returned.latency[ms]], Latencies)
ObservationsIn(i) ==
    SumOver(returned.latency, {ms \in Latencies : i > Len(Buckets) \/ ms <= Buckets[i]})

\* C20: (specification SpecCollector) whatever the interleaving of the
\* threads, every counter holds the number of returned calls that targeted
\* it, and latency_count, latency_sum and the bucket counts hold all the
\* observations of the returned observe_latency calls.
C20_NoLostUpdate ==
    /\ \A k \in HttpKeys : http_requests[k] = returned.http[k]
    /\ \A o \in Outcomes : webhook_requests[o] = returned.webhook[o]
    /\ latency_count = ObservationsReturned
    /\ latency_sum = ObservationsSum
    /\ \A i \in BucketNumbers : latency_counts[i] = ObservationsIn(i)

\* two calls for the same counter, one entered while the other was inside,
\* have both returned
C20_Witness ==
    /\ Quiescent
    /\ nrequests = 2
    /\ returned.overlapped = 1
    /\ \E k \in HttpKeys : http_requests[k] = 2

\* the lines of an export text that carry the given metric name
SampleLines(text, name) ==
    SelectSeq(text, LAMBDA l : "name" \in DOMAIN l /\ l.name = name)

\* C21: (specification SpecCollector) no step of export changes a field
\* of the collector; an export that returns when no inc_http_request,
\* inc_webhook_request or observe_latency has returned since the previous
\* export returns the same text as that export; and in every text the http
\* lines are in ascending order of the key path|status, the webhook lines
\* in ascending order of the result, and the bucket lines in ascending
\* order of the boundary, +Inf last.
C21_ExportStable ==
    [][\A t \in Threads :
         (thr[t].op = "export" /\ thr'[t] # thr[t])
         => /\ http_requests' = http_requests
            /\ webhook_requests' = webhook_requests
            /\ latency_counts' = latency_counts
            /\ latency_count' = latency_count
            /\ latency_sum' = latency_sum
            /\ (thr[t].pc = "write")
               => /\ (call.op = "export" /\ returned.since_export = 0)
                     => call'.result.text = call.result.text
                  /\ LET text == call'.result.text
                         h == SampleLines(text, "http_requests_total")
                         w == SampleLines(text, "webhook_requests_total")
                         b == SampleLines(text, "request_latency_ms_bucket")
                     IN /\ \A i, j \in 1..Len(h) :
                              i < j => StrLess(h[i].path \o <<124>> \o h[i].status,
                                               h[j].path \o <<124>> \o h[j].status)
                        /\ \A i, j \in 1..Len(w) :
                              i < j => StrLess(w[i].result, w[j].result)
                        /\ Len(b) = Len(Buckets) + 1
                        /\ \A i \in 1..Len(Buckets) : b[i].le = Digits(Buckets[i])
                        /\ b[Len(b)].le = <<43,73,110,102>>]_vars

\* after a counter was incremented two exports have returned one after
\* the other; the text has an http line
C21_Witness ==
    /\ returned.export = 2
    /\ returned.since_export = 0
    /\ call.op = "export"
    /\ Len(SampleLines(call.result.text, "http_requests_total")) = 1
    /\ Quiescent

\* C22: (specification SpecCollector) in the text of an export after
\* which no call has returned yet, the value of the line
\* request_latency_ms_bucket{le=b} is the number of observations recorded
\* that are <= b, for every boundary b, and the value of the le="+Inf"
\* line is the value of the line request_latency_ms_count.
C22_ExportedBuckets ==
    (call.op = "export" /\ returned.since_export = 0)
    => LET text == call.result.text
           b == SampleLines(text, "request_latency_ms_bucket")
           c == SampleLines(text, "request_latency_ms_count")
       IN /\ \A i \in 1..Len(b) : b[i].value = ObservationsIn(i)
          /\ b[Len(b)].value = c[1].value

\* C27: (specification SpecCollector) after the observe_latency calls
\* that have returned, the stored count of every boundary b is the number
\* of observations <= b, so it is at least the stored count of every
\* smaller boundary; the stored +Inf count is latency_count, and
\* latency_count is the number of observe_latency calls.
C27_StoredBuckets ==
    /\ \A i \in BucketNumbers :
          latency_counts[i] =
             SumOver(returned.latency,
                     {ms \in Latencies : i <= Len(Buckets) => ms <= Buckets[i]})
    /\ \A i, j \in BucketNumbers : i < j => latency_counts[i] <= latency_counts[j]
    /\ latency_counts[Len(Buckets) + 1] = latency_count
    /\ latency_count = SumOver(returned.latency, Latencies)

\* three observations: one on the first boundary, one between the first
\* two boundaries, one above the last boundary
C27_Witness ==
    /\ Quiescent
    /\ \A ms \in Latencies : returned.latency[ms] = 1
    /\ latency_counts[1] = 1
    /\ latency_counts[2] = 2
    /\ latency_counts[Len(Buckets)] = 2
    /\ latency_counts[Len(Buckets) + 1] = 3

\* C23: (specification SpecVerify) verify_signature returns false, and
\* raises nothing, when the signature is absent or empty or the secret is
\* absent or empty, whatever the body.
C23_UnconfiguredIsFalse ==
    (/\ call.op = "verify_signature"
     /\ ~Truthy(call.args.signature) \/ ~Truthy(call.args.secret))
    => call.result = "False"

\* C24: (specification SpecQuery) get_messages called with a limit
\* outside [1,100] or an offset below 0 fails with an error and returns no
\* rows and no total.
C24_RejectsOutOfRange ==
    (/\ call.op = "get_messages"
     /\ \/ call.args.limit < MinLimit
        \/ call.args.limit > MaxLimit
        \/ call.args.offset < MinOffset)
    => /\ "error" \in DOMAIN call.result
       /\ "messages" \notin DOMAIN call.result

\* C25: (specification Spec) with the webhook secret absent or empty,
\* startup can always complete, and once the service runs GET /health/live
\* is answered 200, GET /health/ready is answered 503, every POST /webhook
\* is answered 401, and the store stays empty.
C25_NoSecret ==
    webhook_secret \in {None, <<>>}
    => /\ phase = "boot" => ENABLED Startup
       /\ messages = <<>>
       /\ \A p \in Procs : ~InFlight(req[p])
       /\ last.pc = "done"
          => /\ last.path = "/health/live" => last.status = 200
             /\ last.path = "/health/ready" => last.status = 503
             /\ last.path = "/webhook" => (last.status = 401 /\ ~last.inserted)

\* without a secret the service has started and has answered a valid
\* message signed with "s3", after two other requests
C25_Witness ==
    /\ webhook_secret \in {None, <<>>}
    /\ phase = "serving"
    /\ nrequests = MaxRequests
    /\ LastWebhook
    /\ last.body.json /\ WebhookMessage(last.body.payload)
    /\ last.x_signature = HmacSha256Hex(Sec, last.body)
    /\ last.status = 401

\* C26: (specification Spec) the webhook handler checks the signature,
\* then validates the payload, then calls insert_message, then records
\* the outcome, and stops at the first stage that fails: a request whose
\* signature is not the digest of its body is answered 401 whatever its
\* payload, a correctly signed request whose payload fails validation is
\* answered 422 even when its message_id is stored, and insert_message is
\* called only for a correctly signed request with a valid payload.
C26_StageOrder ==
    /\ LastWebhook
       => /\ ~CorrectlySigned(last)
             => (last.status = 401 /\ last.created_at = None /\ ~last.inserted)
          /\ (CorrectlySigned(last)
              /\ (~last.body.json \/ ~WebhookMessage(last.body.payload)))
             => (last.status = 422 /\ last.created_at = None /\ ~last.inserted)
          /\ last.created_at # None
             => /\ CorrectlySigned(last)
                /\ last.body.json /\ WebhookMessage(last.body.payload)
                /\ last.webhook_result \in {"created", "duplicate"}
    /\ \A p \in Procs :
          InFlight(req[p])
          => /\ CorrectlySigned(req[p])
             /\ req[p].body.json /\ WebhookMessage(req[p].body.payload)

\* C28: (specification SpecInsert) insert_message returns
\* is_duplicate = true exactly when a row with the message_id was stored
\* before the call; when the table is missing or the row violates a
\* constraint other than the uniqueness of message_id the call fails, and
\* returns neither success nor duplicate.
C28_DuplicateOnlyForStoredId ==
    call.op = "insert_message"
    => LET a == call.args
           r == call.result
           existed == \E i \in 1..Len(call.before) :
                         call.before[i].message_id = a.message_id
           other == \/ ~table_exists
                    \/ (~existed /\ (a.from_msisdn = None \/ a.to_msisdn = None
                                      \/ a.ts = None))
       IN /\ "returned" \in DOMAIN r => (r.returned[2] <=> existed)
          /\ other => "raised" \in DOMAIN r

\* C29: (specification SpecReads) whatever rows other requests commit
\* between the queries of a call, get_stats returns total_messages = 0
\* exactly when first_message_ts is null, senders_count <= total_messages
\* and per-sender counts that sum to at most total_messages; and
\* get_messages returns at most total - offset items.
C29_OneStoreState ==
    /\ (call.op = "get_stats" /\ call.pc = "done")
       => LET r == call.result IN
          /\ (r.total_messages = 0) <=> (r.first_message_ts = None)
          /\ r.senders_count <= r.total_messages
          /\ SumCounts(r.messages_per_sender) <= r.total_messages
    /\ (call.op = "get_messages" /\ call.pc = "done")
       => Len(call.result.messages)
             <= (IF call.result.total >= call.args.offset
                 THEN call.result.total - call.args.offset ELSE 0)

====
